---- MODULE Spec2Model ----
(***************************************************************************)
(* Model of the per-label LightGBM baseline of baselineV2.ipynb: the data  *)
(* preparation cell, the train/validation split, time_feature, and the     *)
(* per-label train / score / predict loop that fills MAE_scores and submit *)
(* and finally writes the submission file.                                 *)
(*                                                                         *)
(* A DataFrame is a record [cols, rows]: cols is the ordered sequence of   *)
(* column names, rows the sequence of rows, each row a function from the   *)
(* column names to cell values.  The identifier column (xuhao in the       *)
(* source) is written "id" and the timestamp column (shijian) "time".      *)
(***************************************************************************)
EXTENDS Integers, Sequences, FiniteSets, TLC

VARIABLES
    pc,             \* position in the notebook
    error,          \* the exception that ended the run, "" when none
    train_dataset,  \* raw training table (line 36)
    test_dataset,   \* raw test table (line 37)
    submit,         \* result table (lines 39-40, 178)
    MAE_scores,     \* score map, a dict in insertion order (lines 42, 176)
    pred_labels,    \* label set (line 51)
    train_set,      \* training partition (line 52)
    valid_set,      \* validation partition (line 52)
    test_features,  \* line 157
    i,              \* index of the label the for loop is at (line 161)
    train_features, \* line 162
    train_labels,   \* line 163
    valid_features, \* line 166
    valid_labels,   \* line 167
    model,          \* the booster lgb.train returned (line 171)
    valid_pred,     \* line 173
    test_pred,      \* line 174
    csv,            \* the submission file on disk, NoFile until written
    csv_writes,     \* number of times the submission file was written
    tf_in,          \* time_feature harness: the call's arguments
    tf_out,         \* time_feature harness: the call's outcome
    runs            \* split harness: the outcome of each run of the split

vars == <<pc, error, train_dataset, test_dataset, submit, MAE_scores,
          pred_labels, train_set, valid_set, test_features, i,
          train_features, train_labels, valid_features, valid_labels,
          model, valid_pred, test_pred, csv, csv_writes, tf_in, tf_out, runs>>

----------------------------------------------------------------------------
(* Bounds of the model and constants of the program *)

\* rows of the training table in the pipeline runs
MaxRows == 3
\* rows of the table given to the split harness
MaxSplitRows == 6
\* rows of the test table
TestRows == 2
\* columns[-34:] at line 51: 34 labels in the source, scaled down
NumLabels == 2
\* lgb.train(..., 200, ...) at line 171: 200 rounds in the source, scaled down
NumBoostRound == 3
\* rows of the table given to the time_feature harness
MaxTfRows == 2
\* 'seed': 2023 at line 66
LgbSeed == 2023
\* the number of runs the split harness compares
NumRuns == 2
\* test_size=0.2 at line 52, in tenths
TestSizeTenths == 2
\* dayofweek // 6 at line 112
WeekendDivisor == 6

IdCol == "id"
TimeCol == "time"

----------------------------------------------------------------------------
(* Sequences *)

RECURSIVE SeqSum(_)
SeqSum(s) == IF s = <<>> THEN 0 ELSE Head(s) + SeqSum(Tail(s))

Range(s) == {s[k] : k \in DOMAIN s}

RECURSIVE SelectNotIn(_, _)
SelectNotIn(s, drop) ==
    IF s = <<>> THEN <<>>
    ELSE IF Head(s) \in drop THEN SelectNotIn(Tail(s), drop)
         ELSE <<Head(s)>> \o SelectNotIn(Tail(s), drop)

\* the variant s[:n]: the first n elements
FirstN(s, n) == IF Len(s) <= n THEN s ELSE SubSeq(s, 1, n)

\* Python's s[-n:]: the last n elements, all of s when it has fewer
LastN(s, n) == IF Len(s) <= n THEN s ELSE SubSeq(s, Len(s) - n + 1, Len(s))

Abs(x) == IF x < 0 THEN -x ELSE x

----------------------------------------------------------------------------
(* pandas DataFrame operations *)

EmptyFrame == [cols |-> <<>>, rows |-> <<>>]

\* df[name]: the column's values in row order
Column(df, name) == [k \in DOMAIN df.rows |-> df.rows[k][name]]

\* the content of df.drop(columns=names); the caller checks the names exist
DropCols(df, names) ==
    LET keep == SelectNotIn(df.cols, names)
    IN  [cols |-> keep,
         rows |-> [k \in DOMAIN df.rows |-> [c \in Range(keep) |-> df.rows[k][c]]]]

\* the content of df after df[name] = vals: an existing column is overwritten
\* in place, a new one is appended as the last column
SetCol(df, name, vals) ==
    [cols |-> IF name \in Range(df.cols) THEN df.cols ELSE Append(df.cols, name),
     rows |-> [k \in DOMAIN df.rows |->
                 [c \in Range(df.cols) \cup {name} |->
                     IF c = name THEN vals[k] ELSE df.rows[k][c]]]]

\* df.iloc[idx]: the rows at the positions idx, in that order
ILoc(df, idx) == [cols |-> df.cols, rows |-> [k \in DOMAIN idx |-> df.rows[idx[k]]]]

----------------------------------------------------------------------------
(* Calendar: pd.to_datetime and the .dt accessors of lines 104-112.         *)
(* A timestamp cell of the csv is the tuple <<year, month, day, hour,       *)
(* minute>> of the fields its text spells.                                  *)

IsLeap(y) == (y % 4 = 0) /\ ((y % 100 # 0) \/ (y % 400 = 0))

DaysInMonth(y, m) ==
    IF m = 2 THEN (IF IsLeap(y) THEN 29 ELSE 28)
    ELSE IF m \in {4, 6, 9, 11} THEN 30 ELSE 31

\* whether pd.to_datetime accepts the cell
Parseable(t) ==
    /\ t[1] \in 1..9999
    /\ t[2] \in 1..12
    /\ t[3] \in 1..DaysInMonth(t[1], t[2])
    /\ t[4] \in 0..23
    /\ t[5] \in 0..59

\* the Timestamp pd.to_datetime makes of a cell it accepts
ToDatetime(t) == [year |-> t[1], month |-> t[2], day |-> t[3], hour |-> t[4], minute |-> t[5]]

RECURSIVE DaysBeforeMonth(_, _)
DaysBeforeMonth(y, m) == IF m = 1 THEN 0 ELSE DaysBeforeMonth(y, m - 1) + DaysInMonth(y, m - 1)

DayOfYear(ts) == DaysBeforeMonth(ts.year, ts.month) + ts.day

\* proleptic Gregorian ordinal of 1 January of year y (0001-01-01 is day 1)
YearOrdinal(y) == 365 * (y - 1) + ((y - 1) \div 4) - ((y - 1) \div 100) + ((y - 1) \div 400) + 1

Ordinal(ts) == YearOrdinal(ts.year) + DayOfYear(ts) - 1

\* 0 = Monday .. 6 = Sunday
DayOfWeek(ts) == (Ordinal(ts) + 6) % 7

\* ordinal of the Monday that starts ISO week 1 of year y
IsoWeek1Monday(y) ==
    LET firstday == YearOrdinal(y)
        firstweekday == (firstday + 6) % 7
        monday == firstday - firstweekday
    IN  IF firstweekday > 3 THEN monday + 7 ELSE monday

\* .dt.isocalendar().week
IsoWeek(ts) ==
    LET today == Ordinal(ts)
        w == (today - IsoWeek1Monday(ts.year)) \div 7
    IN  IF today < IsoWeek1Monday(ts.year)
        THEN ((today - IsoWeek1Monday(ts.year - 1)) \div 7) + 1
        ELSE IF w >= 52 /\ today >= IsoWeek1Monday(ts.year + 1) THEN 1
        ELSE w + 1

Month(ts) == ts.month
Day(ts) == ts.day
Hour(ts) == ts.hour
Minute(ts) == ts.minute
\* the variant that counts Saturday too
IsWeekendFromSaturday(ts) == DayOfWeek(ts) \div (WeekendDivisor - 1)

IsWeekend(ts) == DayOfWeek(ts) \div WeekendDivisor

----------------------------------------------------------------------------
(* time_feature (lines 87-119).                                             *)
(* The body runs on a frame environment: arg is the content of the caller's *)
(* DataFrame object, data the content of the object the local name data is  *)
(* bound to, alias whether the two are one object, st the exception raised  *)
(* so far ("ok" when none).  An in-place write reaches arg while alias      *)
(* holds.                                                                   *)

Enter(df) == [st |-> "ok", arg |-> df, data |-> df, alias |-> TRUE]

\* data = data.copy(): a new object with the same content
DfCopy(e) == IF e.st # "ok" THEN e ELSE [e EXCEPT !.alias = FALSE]

\* the variant whose result is thrown away: data.drop(columns=names)
DfDropDiscarded(e, names) ==
    IF e.st # "ok" THEN e
    ELSE IF ~(Range(names) \subseteq Range(e.data.cols)) THEN [e EXCEPT !.st = "KeyError"]
    ELSE e

\* data = data.drop(columns=names): a new object; KeyError when a name is
\* not a column
DfDrop(e, names) ==
    IF e.st # "ok" THEN e
    ELSE IF ~(Range(names) \subseteq Range(e.data.cols)) THEN [e EXCEPT !.st = "KeyError"]
    ELSE [e EXCEPT !.data = DropCols(e.data, Range(names)), !.alias = FALSE]

\* data[name] = vals: written into the object data is bound to
DfSetItem(e, name, vals) ==
    LET d == SetCol(e.data, name, vals)
    IN  [e EXCEPT !.data = d, !.arg = IF e.alias THEN d ELSE e.arg]

\* data["time"] = pd.to_datetime(data["time"]) (line 104)
DfToDatetime(e) ==
    IF e.st # "ok" THEN e
    ELSE IF TimeCol \notin Range(e.data.cols) THEN [e EXCEPT !.st = "KeyError"]
    ELSE IF \E k \in DOMAIN e.data.rows : ~Parseable(e.data.rows[k][TimeCol])
         THEN [e EXCEPT !.st = "ValueError"]
    ELSE DfSetItem(e, TimeCol,
                   [k \in DOMAIN e.data.rows |-> ToDatetime(e.data.rows[k][TimeCol])])

\* the right-hand sides of lines 105-112 for one timestamp
TimeField(name, t) ==
    CASE name = "month"      -> Month(t)
      [] name = "day"        -> Day(t)
      [] name = "hour"       -> Hour(t)
      [] name = "minute"     -> Minute(t)
      [] name = "weekofyear" -> IsoWeek(t)
      [] name = "dayofyear"  -> DayOfYear(t)
      [] name = "dayofweek"  -> DayOfWeek(t)
      [] name = "is_weekend" -> IsWeekend(t)

\* data[name] = data["time"].dt.<field> (lines 105-112)
DfDerive(e, name) ==
    IF e.st # "ok" THEN e
    ELSE DfSetItem(e, name, [k \in DOMAIN e.data.rows |-> TimeField(name, e.data.rows[k][TimeCol])])

\* the eight columns of lines 105-112, in the order they are assigned
TimeFeatureNames ==
    <<"month", "day", "hour", "minute", "weekofyear", "dayofyear", "dayofweek", "is_weekend">>

\* the variant that strips the first label only
StripFirstLabel(e, labels) == IF labels # <<>> THEN DfDrop(e, <<Head(labels)>>) ELSE e

\* lines 116-117: if pred_labels: data = data.drop(columns=[*pred_labels]);
\* None and the empty list are both the empty sequence here
StripLabels(e, labels) == IF labels # <<>> THEN DfDrop(e, labels) ELSE e

\* the variant without the copy and with in-place drops
time_feature_inplace(data, labels) ==
    LET InPlaceDrop(e, names) ==
            IF e.st # "ok" THEN e
            ELSE IF ~(Range(names) \subseteq Range(e.data.cols)) THEN [e EXCEPT !.st = "KeyError"]
            ELSE LET d == DropCols(e.data, Range(names))
                 IN  [e EXCEPT !.data = d, !.arg = IF e.alias THEN d ELSE e.arg]
        e2  == InPlaceDrop(Enter(data), <<IdCol>>)
        e3  == DfToDatetime(e2)
        e4  == DfDerive(e3, "month")
        e5  == DfDerive(e4, "day")
        e6  == DfDerive(e5, "hour")
        e7  == DfDerive(e6, "minute")
        e8  == DfDerive(e7, "weekofyear")
        e9  == DfDerive(e8, "dayofyear")
        e10 == DfDerive(e9, "dayofweek")
        e11 == DfDerive(e10, "is_weekend")
        e12 == InPlaceDrop(e11, <<TimeCol>>)
        e13 == IF labels # <<>> THEN InPlaceDrop(e12, labels) ELSE e12
    IN  [st |-> e13.st, out |-> IF e13.st = "ok" THEN e13.data ELSE EmptyFrame, arg |-> e13.arg]

\* the outcome of time_feature(data, pred_labels): st the exception ("ok"
\* when it returns), out the returned frame, arg the caller's frame after
\* the call
time_feature(data, labels) ==
    LET e1  == DfCopy(Enter(data))
        e2  == DfDrop(e1, <<IdCol>>)
        e3  == DfToDatetime(e2)
        e4  == DfDerive(e3, "month")
        e5  == DfDerive(e4, "day")
        e6  == DfDerive(e5, "hour")
        e7  == DfDerive(e6, "minute")
        e8  == DfDerive(e7, "weekofyear")
        e9  == DfDerive(e8, "dayofyear")
        e10 == DfDerive(e9, "dayofweek")
        e11 == DfDerive(e10, "is_weekend")
        e12 == DfDrop(e11, <<TimeCol>>)
        e13 == StripLabels(e12, labels)
    IN  [st |-> e13.st, out |-> IF e13.st = "ok" THEN e13.data ELSE EmptyFrame, arg |-> e13.arg]

----------------------------------------------------------------------------
(* sklearn.model_selection.train_test_split(df, test_size=0.2) (line 52).   *)
(* No random_state is passed, so the permutation comes from numpy's global  *)
(* generator, which nothing in the notebook seeds: perm is any permutation  *)
(* of the row positions.                                                    *)

\* the variant that rounds to the nearest integer
NTestRounded(n) == (TestSizeTenths * n + 5) \div 10

\* n_test = ceil(test_size * n_samples).  In binary floating point 0.2 * n
\* is exactly n / 5 when 5 divides n, and no other n comes within rounding
\* error of an integer, so the ceiling is that of the exact quotient.
NTest(n) == (TestSizeTenths * n + 9) \div 10

\* n_train = n_samples - n_test
NTrain(n) == n - NTest(n)

\* st is "ValueError" when the resulting train set would be empty
train_test_split(df, perm) ==
    LET n == Len(df.rows)
    IN  IF NTrain(n) <= 0
        THEN [st |-> "ValueError", train |-> EmptyFrame, valid |-> EmptyFrame]
        ELSE [st |-> "ok",
              train |-> ILoc(df, [k \in 1..NTrain(n) |-> perm[NTest(n) + k]]),
              valid |-> ILoc(df, [k \in 1..NTest(n) |-> perm[k]])]

----------------------------------------------------------------------------
(* LightGBM (lines 171-174).  A booster is the sequence of its trees, a     *)
(* tree being the value it adds to the prediction; which trees training     *)
(* grows is left open.                                                      *)

LeafValues == {0, 1}

\* the boosters training can return: at least one and at most num_boost_round trees
TreeSeqs == UNION {[1..n -> LeafValues] : n \in 1..NumBoostRound}

NoModel == [num_feature |-> 0, trees |-> <<>>, best_iteration |-> 0]

\* lgb.train(lgb_params, train_data, 200, valid_sets=valid_data,
\* callbacks=[no_info]): no early_stopping callback is among the callbacks
\* and lgb_params has no early_stopping_round, so best_iteration keeps the
\* value 0 train() starts with
lgb_train(features, trees) ==
    [num_feature |-> Len(features.cols), trees |-> trees, best_iteration |-> 0]

\* the number of trees predict uses: num_iteration <= 0 means all of them
NumTreesUsed(booster, num_iteration) ==
    IF num_iteration <= 0 \/ num_iteration > Len(booster.trees)
    THEN Len(booster.trees)
    ELSE num_iteration

\* the prediction of the first k trees for any row
RawScore(booster, k) == SeqSum(SubSeq(booster.trees, 1, k))

\* model.predict(features, num_iteration=n): LightGBMError when the number
\* of feature columns is not the one the booster was trained on
predict(booster, features, num_iteration) ==
    IF Len(features.cols) # booster.num_feature
    THEN [st |-> "LightGBMError", pred |-> <<>>]
    ELSE [st |-> "ok",
          pred |-> [k \in DOMAIN features.rows |->
                      RawScore(booster, NumTreesUsed(booster, num_iteration))]]

\* the sum of absolute differences of two sequences of the same length
SumAbsDiff(a, b) == SeqSum([k \in DOMAIN a |-> Abs(a[k] - b[k])])

\* sklearn.metrics.mean_absolute_error(a, b) as the fraction num / den
mean_absolute_error(a, b) == [num |-> SumAbsDiff(a, b), den |-> Len(a)]

\* the validation MAE (as a sum) the booster has after round k
EvalAt(booster, labels, k) == SumAbsDiff([r \in DOMAIN labels |-> RawScore(booster, k)], labels)

----------------------------------------------------------------------------
(* MAE_scores, a dict: the sequence of its items in insertion order *)

DictKeys(d) == [k \in DOMAIN d |-> d[k].key]

DictHas(d, key) == \E k \in DOMAIN d : d[k].key = key

\* d[key] = value
DictSet(d, key, value) ==
    IF DictHas(d, key)
    THEN [k \in DOMAIN d |-> IF d[k].key = key THEN [key |-> key, value |-> value] ELSE d[k]]
    ELSE Append(d, [key |-> key, value |-> value])

----------------------------------------------------------------------------
(* The csv files read at lines 36-37 *)

FeatureName(k) == "f" \o ToString(k)
LabelName(k) == "y" \o ToString(k)

\* timestamp cells of consecutive days across a weekend and a year's end
Cells ==
    << <<2022, 12, 30, 10, 0>>, <<2022, 12, 31, 23, 59>>, <<2023, 1, 1, 0, 0>>,
       <<2023, 1, 2, 8, 30>>,   <<2023, 1, 3, 12, 15>>,   <<2023, 1, 4, 6, 45>> >>

\* a cell pd.to_datetime rejects
BadCell == <<2023, 2, 30, 0, 0>>

CellAt(k) == Cells[((k - 1) % Len(Cells)) + 1]

Layouts == {"labelled", "labelled_month", "one_target", "one_target_short"}

Max(a, b) == IF a > b THEN a ELSE b

\* the feature columns of a layout
FeatureCols(layout) ==
    LET n == IF layout \in {"labelled", "labelled_month"} THEN 2
             ELSE IF layout = "one_target" THEN NumLabels + 1
             ELSE Max(NumLabels - 2, 0)
    IN  [k \in 1..n |-> FeatureName(k)]

\* the target columns of a layout: NumLabels of them (the last one named
\* "month" in the layout labelled_month), or the single "target"
TargetCols(layout) ==
    IF layout = "labelled" THEN [k \in 1..NumLabels |-> LabelName(k)]
    ELSE IF layout = "labelled_month"
    THEN [k \in 1..NumLabels |-> IF k = NumLabels THEN "month" ELSE LabelName(k)]
    ELSE <<"target">>

\* the training table: n rows, timestamps from the offset on, row 1's
\* timestamp unparseable when bad
TrainTable(layout, n, offset, bad) ==
    LET f == FeatureCols(layout)
        t == TargetCols(layout)
        cols == <<IdCol, TimeCol>> \o f \o t
    IN  [cols |-> cols,
         rows |-> [r \in 1..n |->
            [c \in Range(cols) |->
                IF c = IdCol THEN r
                ELSE IF c = TimeCol THEN (IF bad /\ r = 1 THEN BadCell ELSE CellAt(offset + r))
                ELSE IF c \in Range(f) THEN (r + (CHOOSE k \in DOMAIN f : f[k] = c)) % 2
                ELSE (r + (CHOOSE k \in DOMAIN t : t[k] = c)) % 3]]]

\* the test table: the training table's columns without the target columns
TestTable(layout, n, offset, bad) ==
    LET f == FeatureCols(layout)
        cols == <<IdCol, TimeCol>> \o f
    IN  [cols |-> cols,
         rows |-> [r \in 1..n |->
            [c \in Range(cols) |->
                IF c = IdCol THEN r
                ELSE IF c = TimeCol THEN (IF bad /\ r = 1 THEN BadCell ELSE CellAt(offset + r + 1))
                ELSE (r + (CHOOSE k \in DOMAIN f : f[k] = c)) % 2]]]

----------------------------------------------------------------------------
(* The notebook *)

NoTfIn == [data |-> EmptyFrame, pred_labels |-> <<>>]
NoTfOut == [st |-> "", out |-> EmptyFrame, arg |-> EmptyFrame]

\* the state after the data preparation cell (lines 36-42)
Init ==
    /\ \E layout \in Layouts, n \in 0..MaxRows, offset \in 0..1,
          bad \in {"none", "train", "test"} :
          /\ train_dataset = TrainTable(layout, n, offset, bad = "train")
          /\ test_dataset = TestTable(layout, TestRows, offset, bad = "test")
    /\ submit = SetCol([cols |-> <<>>, rows |-> [r \in DOMAIN test_dataset.rows |-> <<>>]],
                       IdCol, Column(test_dataset, IdCol))
    /\ MAE_scores = <<>>
    /\ pc = "prepare"
    /\ error = ""
    /\ pred_labels = <<>>
    /\ train_set = EmptyFrame
    /\ valid_set = EmptyFrame
    /\ test_features = EmptyFrame
    /\ i = 0
    /\ train_features = EmptyFrame
    /\ train_labels = <<>>
    /\ valid_features = EmptyFrame
    /\ valid_labels = <<>>
    /\ model = NoModel
    /\ valid_pred = <<>>
    /\ test_pred = <<>>
    /\ csv = EmptyFrame
    /\ csv_writes = 0
    /\ tf_in = NoTfIn
    /\ tf_out = NoTfOut
    /\ runs = <<>>

harness_vars == <<tf_in, tf_out, runs>>
input_vars == <<train_dataset, test_dataset>>
split_vars == <<pred_labels, train_set, valid_set>>
loop_vars == <<train_features, train_labels, valid_features, valid_labels,
               model, valid_pred, test_pred>>
output_vars == <<submit, MAE_scores, csv, csv_writes>>

\* an exception ends the cell
Raise(e) == pc' = "aborted" /\ error' = e

\* lines 51-52
Prepare ==
    /\ pc = "prepare"
    /\ pred_labels' = LastN(train_dataset.cols, NumLabels)
    /\ \E perm \in Permutations(DOMAIN train_dataset.rows) :
          LET r == train_test_split(train_dataset, perm)
          IN  /\ train_set' = r.train
              /\ valid_set' = r.valid
              /\ IF r.st = "ok" THEN pc' = "test_features" /\ error' = error
                 ELSE Raise(r.st)
    /\ UNCHANGED <<input_vars, test_features, i, loop_vars, output_vars, harness_vars>>

\* line 157
TestFeatures ==
    /\ pc = "test_features"
    /\ LET r == time_feature(test_dataset, <<>>)
       IN  /\ test_dataset' = r.arg
           /\ test_features' = r.out
           /\ IF r.st = "ok" THEN pc' = "for" /\ error' = error /\ i' = 1
              ELSE Raise(r.st) /\ i' = i
    /\ UNCHANGED <<train_dataset, split_vars, loop_vars, output_vars, harness_vars>>

\* lines 161-164: the next label, its training features and labels
TrainFeatures ==
    /\ pc = "for"
    /\ i <= Len(pred_labels)
    /\ LET r == time_feature(train_set, pred_labels)
       IN  /\ train_set' = r.arg
           /\ IF r.st # "ok"
              THEN Raise(r.st) /\ UNCHANGED <<train_features, train_labels>>
              ELSE IF pred_labels[i] \notin Range(r.arg.cols)
              THEN Raise("KeyError") /\ train_features' = r.out /\ train_labels' = train_labels
              ELSE /\ train_features' = r.out
                   /\ train_labels' = Column(r.arg, pred_labels[i])
                   /\ pc' = "valid_features"
                   /\ error' = error
    /\ UNCHANGED <<input_vars, pred_labels, valid_set, test_features, i, valid_features,
                   valid_labels, model, valid_pred, test_pred, output_vars, harness_vars>>

\* lines 166-168
ValidFeatures ==
    /\ pc = "valid_features"
    /\ LET r == time_feature(valid_set, pred_labels)
       IN  /\ valid_set' = r.arg
           /\ IF r.st # "ok"
              THEN Raise(r.st) /\ UNCHANGED <<valid_features, valid_labels>>
              ELSE IF pred_labels[i] \notin Range(r.arg.cols)
              THEN Raise("KeyError") /\ valid_features' = r.out /\ valid_labels' = valid_labels
              ELSE /\ valid_features' = r.out
                   /\ valid_labels' = Column(r.arg, pred_labels[i])
                   /\ pc' = "train"
                   /\ error' = error
    /\ UNCHANGED <<input_vars, pred_labels, train_set, test_features, i, train_features,
                   train_labels, model, valid_pred, test_pred, output_vars, harness_vars>>

\* line 171
Train ==
    /\ pc = "train"
    /\ \E trees \in TreeSeqs : model' = lgb_train(train_features, trees)
    /\ pc' = "predict_valid"
    /\ UNCHANGED <<error, input_vars, split_vars, test_features, i, train_features,
                   train_labels, valid_features, valid_labels, valid_pred, test_pred,
                   output_vars, harness_vars>>

\* line 173
PredictValid ==
    /\ pc = "predict_valid"
    /\ LET r == predict(model, valid_features, model.best_iteration)
       IN  /\ valid_pred' = r.pred
           /\ IF r.st = "ok" THEN pc' = "predict_test" /\ error' = error ELSE Raise(r.st)
    /\ UNCHANGED <<input_vars, split_vars, test_features, i, train_features, train_labels,
                   valid_features, valid_labels, model, test_pred, output_vars, harness_vars>>

\* line 174
PredictTest ==
    /\ pc = "predict_test"
    /\ LET r == predict(model, test_features, model.best_iteration)
       IN  /\ test_pred' = r.pred
           /\ IF r.st = "ok" THEN pc' = "score" /\ error' = error ELSE Raise(r.st)
    /\ UNCHANGED <<input_vars, split_vars, test_features, i, train_features, train_labels,
                   valid_features, valid_labels, model, valid_pred, output_vars, harness_vars>>

\* the variant that always writes the first label's key
ScoreKeyFirst(labels, k) == labels[1]

\* the key line 176 writes: the loop's current label
ScoreKey(labels, k) == labels[k]

\* lines 175-176
Score ==
    /\ pc = "score"
    /\ MAE_scores' = DictSet(MAE_scores, ScoreKey(pred_labels, i),
                             mean_absolute_error(valid_pred, valid_labels))
    /\ pc' = "accumulate"
    /\ UNCHANGED <<error, input_vars, split_vars, test_features, i, loop_vars,
                   submit, csv, csv_writes, harness_vars>>

\* line 178, and back to the head of the loop; ValueError when the
\* prediction's length is not the table's
Accumulate ==
    /\ pc = "accumulate"
    /\ IF Len(test_pred) # Len(submit.rows)
       THEN Raise("ValueError") /\ UNCHANGED <<submit, i>>
       ELSE /\ submit' = SetCol(submit, pred_labels[i], test_pred)
            /\ i' = i + 1
            /\ pc' = "for"
            /\ error' = error
    /\ UNCHANGED <<input_vars, split_vars, test_features, loop_vars, MAE_scores,
                   csv, csv_writes, harness_vars>>

\* line 180 not waiting for the last label
AtToCsvEarly == pc = "for" /\ i > 1

\* where line 180 runs: after the loop
AtToCsv == pc = "for" /\ i > Len(pred_labels)

\* lines 180-181
ToCsv ==
    /\ AtToCsv
    /\ csv' = submit
    /\ csv_writes' = csv_writes + 1
    /\ pc' = "done"
    /\ UNCHANGED <<error, input_vars, split_vars, test_features, i, loop_vars,
                   submit, MAE_scores, harness_vars>>

Next ==
    \/ Prepare
    \/ TestFeatures
    \/ TrainFeatures
    \/ ValidFeatures
    \/ Train
    \/ PredictValid
    \/ PredictTest
    \/ Score
    \/ Accumulate
    \/ ToCsv

Spec == Init /\ [][Next]_vars

----------------------------------------------------------------------------
(* time_feature on its own: every table and label list of a bounded family  *)

TfColumnSets ==
    { <<IdCol, TimeCol, "f1", "y1", "y2">>,
      <<IdCol, TimeCol, "f1", "month", "y1">>,
      <<IdCol, TimeCol, "is_weekend", "y1">>,
      <<"f1", TimeCol, IdCol, "y1">>,
      <<IdCol, TimeCol>>,
      <<TimeCol, "f1", "y1">>,
      <<IdCol, "f1", "y1">> }

\* Monday 6 March 2023 to Sunday 12 March 2023, a leap day, a Sunday in ISO
\* week 52 of the year before, and a cell that does not parse
TfCells ==
    { <<2023, 3, 6, 0, 0>>, <<2023, 3, 8, 8, 30>>, <<2023, 3, 10, 17, 5>>,
      <<2023, 3, 11, 23, 59>>, <<2023, 3, 12, 12, 0>>, <<2024, 2, 29, 6, 45>>,
      <<2023, 1, 1, 0, 0>>, BadCell }

\* the lists of at most two columns of cols, in column order
LabelLists(cols) ==
    {<<>>} \cup {<<cols[a]>> : a \in DOMAIN cols}
           \cup UNION {{<<cols[a], cols[b]>> : b \in (a + 1)..Len(cols)} : a \in DOMAIN cols}

TfTable(cols, cells) ==
    [cols |-> cols,
     rows |-> [r \in DOMAIN cells |->
                 [c \in Range(cols) |->
                     IF c = TimeCol THEN cells[r] ELSE IF c = IdCol THEN r ELSE 0]]]

\* the pipeline's variables while a harness runs
Idle ==
    /\ error = ""
    /\ test_dataset = EmptyFrame
    /\ submit = EmptyFrame
    /\ MAE_scores = <<>>
    /\ pred_labels = <<>>
    /\ test_features = EmptyFrame
    /\ i = 0
    /\ train_features = EmptyFrame
    /\ train_labels = <<>>
    /\ valid_features = EmptyFrame
    /\ valid_labels = <<>>
    /\ model = NoModel
    /\ valid_pred = <<>>
    /\ test_pred = <<>>
    /\ csv = EmptyFrame
    /\ csv_writes = 0

InitTimeFeature ==
    /\ Idle
    /\ pc = "tf_call"
    /\ train_dataset = EmptyFrame
    /\ train_set = EmptyFrame
    /\ valid_set = EmptyFrame
    /\ runs = <<>>
    /\ tf_out = NoTfOut
    /\ \E cols \in TfColumnSets, n \in 1..MaxTfRows :
         \E cells \in [1..n -> TfCells], labels \in LabelLists(cols) :
            tf_in = [data |-> TfTable(cols, cells), pred_labels |-> labels]

\* a call time_feature(data, pred_labels)
TimeFeatureCall ==
    /\ pc = "tf_call"
    /\ tf_out' = time_feature(tf_in.data, tf_in.pred_labels)
    /\ pc' = "tf_done"
    /\ UNCHANGED <<error, input_vars, split_vars, test_features, i, loop_vars,
                   output_vars, tf_in, runs>>

SpecTimeFeature == InitTimeFeature /\ [][TimeFeatureCall]_vars

----------------------------------------------------------------------------
(* The split on its own, on tables of up to MaxSplitRows rows *)

InitSplit ==
    /\ Idle
    /\ pc = "split_call"
    /\ \E n \in 0..MaxSplitRows : train_dataset = TrainTable("labelled", n, 0, FALSE)
    /\ train_set = EmptyFrame
    /\ valid_set = EmptyFrame
    /\ runs = <<>>
    /\ tf_in = NoTfIn
    /\ tf_out = NoTfOut

\* line 52
SplitCall ==
    /\ pc = "split_call"
    /\ \E perm \in Permutations(DOMAIN train_dataset.rows) :
          LET r == train_test_split(train_dataset, perm)
          IN  /\ train_set' = r.train
              /\ valid_set' = r.valid
              /\ error' = IF r.st = "ok" THEN error ELSE r.st
    /\ pc' = "split_done"
    /\ UNCHANGED <<input_vars, pred_labels, test_features, i, loop_vars, output_vars,
                   harness_vars>>

SpecSplit == InitSplit /\ [][SplitCall]_vars

----------------------------------------------------------------------------
(* Runs of the notebook's split on one training table.  Each run is a fresh *)
(* kernel: the same file, the same lgb_params, numpy's generator unseeded.  *)

lgb_params == [objective |-> "regression", metric |-> "mae", seed |-> LgbSeed]

InitRuns ==
    /\ Idle
    /\ pc = "runs"
    /\ \E layout \in Layouts, n \in 0..MaxRows, offset \in 0..1 :
          train_dataset = TrainTable(layout, n, offset, FALSE)
    /\ train_set = EmptyFrame
    /\ valid_set = EmptyFrame
    /\ runs = <<>>
    /\ tf_in = NoTfIn
    /\ tf_out = NoTfOut

\* one run of lines 51-69
RunSplit ==
    /\ pc = "runs"
    /\ Len(runs) < NumRuns
    /\ \E perm \in Permutations(DOMAIN train_dataset.rows) :
          LET r == train_test_split(train_dataset, perm)
          IN  runs' = Append(runs, [seed |-> lgb_params.seed, st |-> r.st,
                                    train_set |-> r.train, valid_set |-> r.valid])
    /\ UNCHANGED <<pc, error, input_vars, split_vars, test_features, i, loop_vars,
                   output_vars, tf_in, tf_out>>

SpecRuns == InitRuns /\ [][RunSplit]_vars

----------------------------------------------------------------------------
(* Claims about time_feature, under SpecTimeFeature *)

TfReturned == pc = "tf_done" /\ tf_out.st = "ok"

HasWeekendColumns ==
    {"dayofweek", "is_weekend"} \subseteq Range(tf_out.out.cols)

C9_Covered ==
    /\ pc = "tf_done"
    /\ {IdCol, TimeCol} \subseteq Range(tf_in.data.cols)
    /\ \A k \in DOMAIN tf_in.data.rows : Parseable(tf_in.data.rows[k][TimeCol])
    /\ Range(tf_in.pred_labels) \subseteq Range(tf_in.data.cols)

\* the returned table has (input columns) - 2 - |labelsToStrip| + 8 columns:
\* the surviving input columns in their order, then the eight derived ones
C9_Shape ==
    /\ tf_out.st = "ok"
    /\ Len(tf_out.out.cols) = Len(tf_in.data.cols) - 2 - Len(tf_in.pred_labels) + 8
    /\ tf_out.out.cols =
          SelectNotIn(tf_in.data.cols, {IdCol, TimeCol} \cup Range(tf_in.pred_labels))
          \o TimeFeatureNames

\* C9 as claimed: for every input table with the identifier and timestamp
\* columns (the timestamps valid) and every set of its columns to strip,
\* time_feature returns a
\* table of (input columns) - 2 - |labelsToStrip| + 8 columns, the eight
\* derived columns appended in order after the surviving input columns.
C9_AsClaimed == C9_Covered => C9_Shape

\* C9 amended: the same, for input tables whose timestamps all parse and
\* that have no column already named like a derived feature, and for labels
\* to strip other than the identifier and the timestamp column.
C9_ColumnCount ==
    ( /\ C9_Covered
      /\ Range(tf_in.data.cols) \cap Range(TimeFeatureNames) = {}
      /\ Range(tf_in.pred_labels) \cap {IdCol, TimeCol} = {} )
    => C9_Shape

\* a call that strips two labels of a five-column table and returns nine columns
C9_Witness ==
    /\ TfReturned
    /\ Len(tf_in.data.cols) = 5
    /\ Len(tf_in.pred_labels) = 2
    /\ Len(tf_out.out.cols) = 9
    /\ Range(tf_in.data.cols) \cap Range(TimeFeatureNames) = {}

----------------------------------------------------------------------------
(* Claims about the split *)

Ids(df) == {df.rows[k][IdCol] : k \in DOMAIN df.rows}

\* the two partitions are disjoint and hold every row of the table once
C1_Partition ==
    /\ Ids(train_set) \cap Ids(valid_set) = {}
    /\ Ids(train_set) \cup Ids(valid_set) = Ids(train_dataset)
    /\ Cardinality(Ids(train_set)) = Len(train_set.rows)
    /\ Cardinality(Ids(valid_set)) = Len(valid_set.rows)
    /\ \A k \in DOMAIN train_set.rows : train_set.rows[k] \in Range(train_dataset.rows)
    /\ \A k \in DOMAIN valid_set.rows : valid_set.rows[k] \in Range(train_dataset.rows)

\* round(0.2 * n): n / 5 is never halfway between two integers
Round02(n) == (2 * n + 5) \div 10

\* C1 as claimed: the split of every N-row table (of those the split
\* accepts, N >= 2) yields round(0.2 * N) validation rows and
\* N - round(0.2 * N) training rows, disjoint and together holding every row
\* exactly once.
C1_AsClaimed ==
    (pc = "split_done" /\ Len(train_dataset.rows) >= 2) =>
        LET n == Len(train_dataset.rows)
        IN  /\ error = ""
            /\ Len(valid_set.rows) = Round02(n)
            /\ Len(train_set.rows) = n - Round02(n)
            /\ C1_Partition

\* C1 amended: the split of every N-row table with N >= 2 yields
\* ceil(0.2 * N) validation rows and N - ceil(0.2 * N) training rows,
\* disjoint and together holding every row exactly once.
C1_SplitSizes ==
    (pc = "split_done" /\ Len(train_dataset.rows) >= 2) =>
        LET n == Len(train_dataset.rows)
            nv == Len(valid_set.rows)
        IN  /\ error = ""
            /\ 5 * nv >= n
            /\ 5 * (nv - 1) < n
            /\ Len(train_set.rows) = n - nv
            /\ C1_Partition

\* a six-row table split into two validation rows and four training rows
C1_Witness ==
    /\ pc = "split_done"
    /\ Len(train_dataset.rows) = 6
    /\ Len(valid_set.rows) = 2
    /\ Len(train_set.rows) = 4

\* C2 as claimed: runs of the split on the same table with the same seed
\* yield identical training and validation partitions.
C2_AsClaimed ==
    \A a, b \in DOMAIN runs :
        runs[a].seed = runs[b].seed =>
            /\ runs[a].train_set = runs[b].train_set
            /\ runs[a].valid_set = runs[b].valid_set

----------------------------------------------------------------------------
(* Claims about the per-label loop, under Spec *)

Min(S) == CHOOSE x \in S : \A y \in S : x <= y

\* C4 as claimed: once both predictions of a label are made, they are made
\* with the same iteration, and the validation error of that iteration is
\* the lowest of all the rounds trained.
C4_AsClaimed ==
    pc = "score" =>
        /\ \E k \in 1..Len(model.trees) :
              /\ \A r \in DOMAIN valid_pred : valid_pred[r] = RawScore(model, k)
              /\ \A r \in DOMAIN test_pred : test_pred[r] = RawScore(model, k)
        /\ SumAbsDiff(valid_pred, valid_labels) =
              Min({EvalAt(model, valid_labels, k) : k \in 1..Len(model.trees)})

\* the prediction columns of the result table
PredictionCols(df) == SelectNotIn(df.cols, {IdCol})

\* the number of labels whose score is written
Scored == IF pc = "accumulate" THEN i ELSE Max(i - 1, 0)

\* the number of labels whose predictions are in the result table
Accumulated == Max(i - 1, 0)

\* C5: the submission file is written at most once, only when the run is
\* done with every label, and then holds the identifier column and one
\* prediction column per label of the NumLabels-label set; a run that
\* aborted has written no file and takes no further step.
C5_FileOnlyWhenComplete ==
    /\ [](/\ csv_writes <= 1
          /\ csv_writes = 0 => csv = EmptyFrame
          /\ pc = "aborted" => (csv_writes = 0 /\ error # "")
          /\ csv_writes = 1 =>
                /\ pc = "done"
                /\ error = ""
                /\ Len(pred_labels) = NumLabels
                /\ DictKeys(MAE_scores) = pred_labels
                /\ csv.cols = <<IdCol>> \o pred_labels
                /\ Len(csv.rows) = Len(test_dataset.rows))
    /\ [][pc # "aborted"]_vars

\* a completed run with its file written
C5_Witness == pc = "done" /\ csv_writes = 1 /\ Len(csv.cols) = NumLabels + 1

\* C6: the labels are visited once each in label-set order: after k labels
\* the score map holds exactly the first k labels and the result table the
\* identifier column followed by exactly their k prediction columns, and no
\* step changes an entry or a column written before.
C6_WriteOnceInOrder ==
    /\ [](/\ i <= Len(pred_labels) + 1
          /\ DictKeys(MAE_scores) = SubSeq(pred_labels, 1, Scored)
          /\ submit.cols = <<IdCol>> \o SubSeq(pred_labels, 1, Accumulated))
    /\ [][/\ i' \in {i, i + 1}
          /\ \A k \in DOMAIN MAE_scores :
                k \in DOMAIN MAE_scores' /\ MAE_scores'[k] = MAE_scores[k]
          /\ \A k \in DOMAIN submit.cols :
                /\ k \in DOMAIN submit'.cols
                /\ submit'.cols[k] = submit.cols[k]
                /\ Column(submit', submit.cols[k]) = Column(submit, submit.cols[k])]_vars

\* the loop at its head after all labels, the last score not the first
C6_Witness ==
    /\ pc = "for"
    /\ i = NumLabels + 1
    /\ Len(MAE_scores) = NumLabels
    /\ MAE_scores[1].value # MAE_scores[NumLabels].value

\* C7: no step changes the raw train and test tables, and no step after the
\* split changes the training or the validation partition: time_feature
\* leaves the table it is given as it was.
C7_PartitionsUnchanged ==
    [][/\ train_dataset' = train_dataset
       /\ test_dataset' = test_dataset
       /\ pc # "prepare" => (train_set' = train_set /\ valid_set' = valid_set)]_vars

\* the second label's turn: time_feature has run on both partitions
C7_Witness ==
    /\ pc = "train"
    /\ i = 2
    /\ train_set.cols = train_dataset.cols
    /\ valid_set.cols = train_dataset.cols
    /\ Len(train_features.cols) < Len(train_set.cols) + 8

\* the tables parse and the split accepts the training table
InputsValid ==
    /\ Len(train_dataset.rows) >= 2
    /\ Len(test_dataset.rows) >= 1
    /\ \A k \in DOMAIN train_dataset.rows : Parseable(train_dataset.rows[k][TimeCol])
    /\ \A k \in DOMAIN test_dataset.rows : Parseable(test_dataset.rows[k][TimeCol])

\* the training table ends with the single target column "target" and the
\* test table has the same columns without it
OneTargetInput ==
    /\ InputsValid
    /\ Len(train_dataset.cols) >= 4
    /\ train_dataset.cols[Len(train_dataset.cols)] = "target"
    /\ test_dataset.cols = SelectNotIn(train_dataset.cols, {"target"})

\* the last NumLabels columns of a table that has more than NumLabels
Trailing(cols) == [k \in 1..NumLabels |-> cols[Len(cols) - NumLabels + k]]

\* the last NumLabels columns of the training table are its targets, none
\* of them named like the identifier, the timestamp or a derived feature:
\* the test table has the same columns without them
TrailingTargetsInput ==
    /\ InputsValid
    /\ Len(train_dataset.cols) >= NumLabels + 2
    /\ ({IdCol, TimeCol} \cup Range(TimeFeatureNames)) \cap Range(Trailing(train_dataset.cols)) = {}
    /\ test_dataset.cols = SelectNotIn(train_dataset.cols, Range(Trailing(train_dataset.cols)))

ScoresNonNegative ==
    \A k \in DOMAIN MAE_scores : MAE_scores[k].value.num >= 0 /\ MAE_scores[k].value.den > 0

TrainValidGiven == pc \in {"train", "predict_valid", "predict_test", "score", "accumulate"}
TestGiven == pc \in {"predict_test", "score", "accumulate"}

Excluded == {IdCol, TimeCol} \cup Range(pred_labels)

\* C10 as claimed: none of the training, validation and test feature tables
\* given to the model has the identifier column, the timestamp column or a
\* column of the label set (stated for label sets without a label named
\* like a derived feature).
C10_AsClaimed ==
    Range(pred_labels) \cap Range(TimeFeatureNames) = {} =>
        /\ TrainValidGiven =>
              /\ Range(train_features.cols) \cap Excluded = {}
              /\ Range(valid_features.cols) \cap Excluded = {}
        /\ TestGiven => Range(test_features.cols) \cap Excluded = {}

\* C10 amended: the training and validation feature tables given to the
\* model have neither the identifier column, the timestamp column nor a
\* column of the label set, and have the same columns in the same order;
\* the test feature table has neither the identifier nor the timestamp
\* column, and when the test table is the training table without the label
\* columns and no label is named like a derived feature it has no label
\* column and the same columns in the same order as the other two.
C10_FeatureColumns ==
    /\ TrainValidGiven =>
          /\ Range(train_features.cols) \cap Excluded = {}
          /\ Range(valid_features.cols) \cap Excluded = {}
          /\ train_features.cols = valid_features.cols
    /\ TestGiven =>
          /\ Range(test_features.cols) \cap {IdCol, TimeCol} = {}
          /\ ( /\ test_dataset.cols = SelectNotIn(train_dataset.cols, Range(pred_labels))
               /\ Range(pred_labels) \cap Range(TimeFeatureNames) = {} ) =>
                /\ Range(test_features.cols) \cap Excluded = {}
                /\ test_features.cols = train_features.cols

\* the model about to predict on a test feature table of the training
\* features' columns
C10_Witness ==
    /\ pc = "predict_test"
    /\ i = 2
    /\ test_features.cols = train_features.cols
    /\ Len(test_features.cols) = 10

====
